---- MODULE Spec2Model ----
(***************************************************************************)
(* Model of server/app_orchestrator_v1.py: the multimodal_verify handler   *)
(* (policy validation, evidence persistence, the ordered module calls      *)
(* through the retrying HTTP client, flag accumulation, proof writing).    *)
(*                                                                         *)
(* Python values:  None is <<>>, an optional scalar v is <<v>>, a list is  *)
(* a sequence, a dict is a function from key strings (d.get(k) is          *)
(* Get(d, k)).  A score s in [0,1] is the integer 100*s.                   *)
(***************************************************************************)
EXTENDS Integers, Sequences, FiniteSets, TLC

\* ------------------------------------------------------------------
\* Bounds of the model
\* ------------------------------------------------------------------
NumLongFlags == 21

\* ------------------------------------------------------------------
\* Program constants
\* ------------------------------------------------------------------
HTTP_RETRIES == 1
MAX_VIDEO_MB == 50
MAX_AUDIO_MB == 15
FLAGS_LIMIT == 20
TEXT_LIMIT == 500

Runs == {1, 2}

None == <<>>
Some(v) == <<v>>

Min(a, b) == IF a < b THEN a ELSE b
Max(a, b) == IF a > b THEN a ELSE b

\* dict.get(k): the value under k, None when the key is missing
Get(d, k) == IF k \in DOMAIN d THEN d[k] ELSE None

\* Python truthiness of an optional number / optional string / list
TruthyNum(v) == v # None /\ v[1] # 0
TruthyStr(v) == v # None /\ v[1] # ""
TruthyList(l) == l # <<>>

\* Python `a or b`
OrNum(a, b) == IF TruthyNum(a) THEN a ELSE b

\* mutant: only a missing value falls through, an empty string is kept
OrStr_NoneOnly(a, b) == IF a # None THEN a ELSE b

OrStr(a, b) == IF TruthyStr(a) THEN a ELSE b

OrList(a, b) == IF TruthyList(a) THEN a ELSE b

\* mutant: the video guard rejects a clip of exactly the ceiling (>= for >)
VideoCeiling_OneLess == MAX_VIDEO_MB * 1024 * 1024 - 1

VideoCeiling == MAX_VIDEO_MB * 1024 * 1024
AudioCeiling == MAX_AUDIO_MB * 1024 * 1024

\* mutant: the loop runs once more than configured
MaxAttempts_OneMore == Max(1, HTTP_RETRIES + 1) + 1

MaxAttempts == Max(1, HTTP_RETRIES + 1)

RECURSIVE DedupFrom(_, _)
DedupFrom(l, seen) ==
  IF l = <<>> THEN <<>>
  ELSE IF l[1] \in seen THEN DedupFrom(Tail(l), seen)
       ELSE <<l[1]>> \o DedupFrom(Tail(l), seen \cup {l[1]})

\* list(dict.fromkeys(l)): unique, first occurrence kept, order preserved
DictFromKeys(l) == DedupFrom(l, {})

\* l[:n]
Prefix(l, n) == SubSeq(l, 1, Min(n, Len(l)))

\* mutant: the cut is applied before the deduplication
FinalFlags_CutFirst(l) == DictFromKeys(Prefix(l, FLAGS_LIMIT))

\* "unique preserve order" then [:20]
FinalFlags(l) == Prefix(DictFromKeys(l), FLAGS_LIMIT)

\* mutant: every policy other than STRICT_STANDARD is taken as silent
_policy_to_mode_Lenient(policy_id) ==
  IF policy_id = "STRICT_STANDARD" THEN "SPOKEN" ELSE "SILENT"

_policy_to_mode(policy_id) ==
  IF policy_id = "STRICT_STANDARD" THEN "SPOKEN"
  ELSE IF policy_id = "STRICT_SILENT" THEN "SILENT"
  ELSE "ValueError"

\* ------------------------------------------------------------------
\* What a module may answer to one HTTP attempt
\* ------------------------------------------------------------------
Modules == {"challenge", "face", "voice", "lipsync", "vsr", "fusion"}

PrimaryScoreKey ==
  [challenge |-> "score_challenge", face |-> "score_face_match",
   voice |-> "score_voice_match", lipsync |-> "score_lipsync",
   vsr |-> "score_vsr"]

AltScoreKey ==
  [challenge |-> "challenge_score", face |-> "face_score",
   voice |-> "voice_score", lipsync |-> "lipsync_score", vsr |-> "vsr_score"]

ModuleFlagsKey ==
  [challenge |-> "flags_challenge", face |-> "flags_face",
   voice |-> "flags_voice", lipsync |-> "flags_lipsync", vsr |-> "flags_vsr",
   fusion |-> "flags_summary"]

AUDIO_IGNORED_SILENT == "AUDIO_IGNORED_SILENT"

\* a list of NumLongFlags distinct flags, longer than FLAGS_LIMIT
LongFlags == [i \in 1..NumLongFlags |-> "F" \o ToString(i)]

\* JSON bodies of a 2xx answer of a scoring module
OkBodies(m) ==
  { (PrimaryScoreKey[m] :> Some(90)) @@ (ModuleFlagsKey[m] :> <<"A", "B">>)
      @@ ("decision_challenge" :> Some("PASS")),
    (PrimaryScoreKey[m] :> Some(0)) @@ (ModuleFlagsKey[m] :> <<>>)
      @@ ("flags" :> <<"A", "C">>),
    (AltScoreKey[m] :> Some(80)) @@ (ModuleFlagsKey[m] :> LongFlags) }

\* JSON bodies of a 2xx answer of the fusion module
FusionBodies ==
  { [final_decision |-> Some("ACCEPT"), flags_summary |-> <<"B", "D">>],
    [decision |-> Some("REJECT"), flags |-> <<"A">>],
    [final_decision |-> Some(""), flags_summary |-> LongFlags],
    [score |-> Some(50)] }

\* JSON bodies of a 4xx/5xx answer
ErrBodies(m) ==
  { (ModuleFlagsKey[m] :> <<"E", "E">>) @@ ("flags_summary" :> <<"S">>),
    ("flags_summary" :> LongFlags) }

Http(status, ct_json, parses, json, text_len, ms) ==
  [kind |-> "http", status |-> status, ct_json |-> ct_json, parses |-> parses,
   json |-> json, text_len |-> text_len, ms |-> ms]

\* connection error or timeout: client.post raises
TransportFailure ==
  [kind |-> "exc", status |-> 0, ct_json |-> FALSE, parses |-> FALSE,
   json |-> <<>>, text_len |-> 0, ms |-> 1]

\* every attempt takes one tick of the clock
Replies(m) ==
  {TransportFailure}
  \cup {Http(200, TRUE, TRUE, b, 0, 1) :
          b \in IF m = "fusion" THEN FusionBodies ELSE OkBodies(m)}
  \cup {Http(200, TRUE, FALSE, <<>>, 7, 1), Http(200, FALSE, FALSE, <<>>, 7, 1)}
  \cup {Http(500, TRUE, TRUE, b, 0, 1) : b \in ErrBodies(m)}
  \cup {Http(400, TRUE, TRUE, <<>>, 0, 1), Http(502, TRUE, FALSE, <<>>, 7, 1),
        Http(503, FALSE, FALSE, <<>>, TEXT_LIMIT + 1, 1)}

\* ------------------------------------------------------------------
\* Module client: the body of the try block of _post_json/_post_multipart
\* ------------------------------------------------------------------
Raised == [raised |-> TRUE, value |-> <<>>]
Returned(v) == [raised |-> FALSE, value |-> v]

\* mutant: a 4xx/5xx JSON answer is returned without the error marker
HttpExchange_Unmarked(rep) ==
  IF rep.kind = "exc" THEN Raised
  ELSE IF rep.ct_json
       THEN IF rep.parses THEN Returned(rep.json) ELSE Raised
       ELSE Returned([raw |-> rep.text_len])

HttpExchange(rep) ==
  IF rep.kind = "exc" THEN Raised
  ELSE IF rep.status >= 400
       THEN IF rep.ct_json
            THEN IF rep.parses
                 THEN Returned([__http_error__ |-> TRUE, __status__ |-> rep.status,
                                __json__ |-> rep.json])
                 ELSE Raised
            ELSE Returned([__http_error__ |-> TRUE, __status__ |-> rep.status,
                           __text__ |-> Min(rep.text_len, TEXT_LIMIT)])
       ELSE IF rep.ct_json
            THEN IF rep.parses THEN Returned(rep.json) ELSE Raised
            ELSE Returned([raw |-> rep.text_len])

\* mutant: the marker is looked up under the wrong key
IsHttpError_WrongKey(res) == "http_error" \in DOMAIN res /\ res["http_error"]

\* res.get("__http_error__")
IsHttpError(res) == "__http_error__" \in DOMAIN res /\ res["__http_error__"]

\* res.get("__status__", 500)
StatusOf(res) == IF "__status__" \in DOMAIN res THEN res["__status__"] ELSE 500

\* j = res.get("__json__") or {}
ErrJson(res) == Get(res, "__json__")

_err(status, code, msg, flags) ==
  [kind |-> "json", status |-> status,
   content |-> [ok |-> FALSE, error_code |-> code, error_message |-> msg,
                flags_summary |-> OrList(flags, <<>>)]]

\* the RuntimeError of an exhausted client leaves the handler: the framework
\* answers 500 with no JSON envelope
Unhandled == [kind |-> "exception", status |-> 500, content |-> <<>>]

NoResponse == [kind |-> "none", status |-> 0, content |-> <<>>]

\* ------------------------------------------------------------------
\* State
\* ------------------------------------------------------------------
VARIABLES
  req,       \* req[r]: the form fields and uploads of request r
  pc,        \* pc[r]: where handler run r stands ("idle": no such request)
  loc,       \* loc[r]: the local variables of run r
  attempt,   \* attempt[r]: loop index of the module client's current call
  calls,     \* calls[r]: the module calls run r has issued, in order
  response,  \* response[r]: what the caller of run r received
  fs,        \* the files under sessions/ and proofs/
  writes,    \* every mkdir / write performed, in order
  now,       \* the clock, in ms
  ended,     \* ended[r]: how each finished module call of run r ended
  only_transport, \* only_transport[r]: every attempt of the current call so
                  \* far failed in transport (connection error, timeout)
  http_failed  \* http_failed[r]: an attempt of the current call was answered
               \* with a status >= 400 and the call went on

vars == <<req, pc, loc, attempt, calls, response, fs, writes, now, ended,
          only_transport, http_failed>>

VideoLens == {VideoCeiling, VideoCeiling + 1}
AudioLens == {AudioCeiling, AudioCeiling + 1}

Requests ==
  [policy_id : {"STRICT_STANDARD", "STRICT_SILENT", "STRICT_LOOSE"},
   enrollment_id_face : {"", "FACE-1"},
   enrollment_id_voice : {None, Some(""), Some("VOICE-1")},
   challenge_id : {"CH-1"},
   clip_video : VideoLens,
   clip_audio : {None} \cup {Some(n) : n \in AudioLens}]

NoRequest ==
  [policy_id |-> "", enrollment_id_face |-> "", enrollment_id_voice |-> None,
   challenge_id |-> "", clip_video |-> 0, clip_audio |-> None]

InitLoc ==
  [t0 |-> 0, t_call |-> 0, mode |-> None, flags_summary |-> <<>>,
   video_bytes |-> None, audio_bytes |-> None,
   session_id |-> None, video_path |-> None, audio_path |-> None,
   timings |-> None,
   challenge_score |-> None, challenge_decision |-> None,
   voice_score |-> None, face_score |-> None, lipsync_score |-> None,
   vsr_score |-> None,
   reported |-> <<>>]

InitRuns(started) ==
  /\ req \in [Runs -> Requests \cup {NoRequest}]
  /\ \A r \in Runs : req[r] = NoRequest <=> r \notin started
  /\ pc = [r \in Runs |-> IF r \in started THEN "start" ELSE "idle"]
  /\ loc = [r \in Runs |-> InitLoc]
  /\ attempt = [r \in Runs |-> 0]
  /\ calls = [r \in Runs |-> <<>>]
  /\ response = [r \in Runs |-> NoResponse]
  /\ fs = <<>>
  /\ writes = <<>>
  /\ now = 0
  /\ ended = [r \in Runs |-> <<>>]
  /\ only_transport = [r \in Runs |-> TRUE]
  /\ http_failed = [r \in Runs |-> FALSE]

Init == InitRuns({1})

\* uuid4: every run draws identifiers no other run draws
_new_session_id(r) == "SES-" \o ToString(r)
_new_proof_id(r) == "PROOF-" \o ToString(r)

\* mutant: the raw directory does not depend on the session
SesDir_Shared(session_id) == "sessions/raw"

SesDir(session_id) == "sessions/" \o session_id \o "/raw"
ProofPath(proof_id) == "proofs/" \o proof_id \o ".json"

Dir == [type |-> "dir", data |-> <<>>]
File(data) == [type |-> "file", data |-> data]
Bytes(part, len) == [part |-> part, len |-> len]

\* mutant: no chunk is fed to the hash, the digest is that of no bytes
_sha256_file_NoChunk(files, path) == [sha256_of |-> Bytes("", 0)]

\* hashlib.sha256 over the bytes of a file: one digest per content
_sha256_file(files, path) == [sha256_of |-> files[path].data]

WriteFile(files, path, data) == (path :> File(data)) @@ files
Mkdir(files, path) == IF path \in DOMAIN files THEN files ELSE (path :> Dir) @@ files

\* ------------------------------------------------------------------
\* Ends of a step of the handler
\* ------------------------------------------------------------------
\* return a response
Respond(r, loc1, resp) ==
  /\ loc' = [loc EXCEPT ![r] = loc1]
  /\ response' = [response EXCEPT ![r] = resp]
  /\ pc' = [pc EXCEPT ![r] = "done"]
  /\ UNCHANGED <<attempt, calls>>

\* await _post_multipart / _post_json for module m
IssueCall(r, loc1, m, files, tnow) ==
  /\ loc' = [loc EXCEPT ![r] = [loc1 EXCEPT !.t_call = tnow]]
  /\ calls' = [calls EXCEPT ![r] = Append(@, [module |-> m, files |-> files])]
  /\ attempt' = [attempt EXCEPT ![r] = 0]
  /\ pc' = [pc EXCEPT ![r] = "await_" \o m]
  /\ UNCHANGED response

\* the except branch of the client and the end of its loop
ClientRaised(r) ==
  IF attempt[r] + 1 < MaxAttempts
  THEN /\ attempt' = [attempt EXCEPT ![r] = @ + 1]
       /\ UNCHANGED <<pc, loc, calls, response>>
  ELSE /\ response' = [response EXCEPT ![r] = Unhandled]
       /\ pc' = [pc EXCEPT ![r] = "done"]
       /\ UNCHANGED <<loc, attempt, calls>>

\* ------------------------------------------------------------------
\* multimodal_verify, step by step (one action per stretch between awaits)
\* ------------------------------------------------------------------
\* mutant: any known policy is treated as the spoken one
IsStandard_AnyStrict(r) == req[r].policy_id \in {"STRICT_STANDARD", "STRICT_SILENT"}

IsStandard(r) == req[r].policy_id = "STRICT_STANDARD"
IsSilent(r) == req[r].policy_id = "STRICT_SILENT"

\* 1) Validate policy & required fields
Validate(r) ==
  /\ pc[r] = "start"
  /\ LET q == req[r]
         mode == _policy_to_mode(q.policy_id)
         l0 == [loc[r] EXCEPT !.t0 = now, !.flags_summary = <<>>]
     IN IF mode = "ValueError"
        THEN Respond(r, l0, _err(400, "INVALID_POLICY", "policy_id not supported", None))
        ELSE IF q.enrollment_id_face = ""
        THEN Respond(r, [l0 EXCEPT !.mode = Some(mode)],
                     _err(400, "MISSING_FIELD", "enrollment_id_face required", None))
        ELSE IF IsStandard(r) /\ ~TruthyStr(q.enrollment_id_voice)
        THEN Respond(r, [l0 EXCEPT !.mode = Some(mode)],
                     _err(400, "MISSING_FIELD",
                          "enrollment_id_voice required for STRICT_STANDARD", None))
        ELSE IF IsStandard(r) /\ q.clip_audio = None
        THEN Respond(r, [l0 EXCEPT !.mode = Some(mode)],
                     _err(400, "MISSING_FIELD",
                          "clip_audio required for STRICT_STANDARD", None))
        ELSE /\ loc' = [loc EXCEPT ![r] =
                   [l0 EXCEPT !.mode = Some(mode),
                              !.flags_summary =
                                 IF IsSilent(r) /\ q.clip_audio # None
                                 THEN Append(l0.flags_summary, AUDIO_IGNORED_SILENT)
                                 ELSE l0.flags_summary]]
             /\ pc' = [pc EXCEPT ![r] = "read_video"]
             /\ UNCHANGED <<attempt, calls, response>>
  /\ UNCHANGED <<req, fs, writes, now, ended, only_transport, http_failed>>

\* 3) Persist raw media (session), metadata, timings, then 4) the Challenge call
PersistAndCallChallenge(r, l1) ==
  LET q == req[r]
      session_id == _new_session_id(r)
      ses_dir == SesDir(session_id)
      video_path == ses_dir \o "/clip_video.bin"
      has_audio == IsStandard(r) /\ l1.audio_bytes # None
      audio_path == IF has_audio THEN Some(ses_dir \o "/clip_audio.bin") ELSE None
      fs1 == WriteFile(Mkdir(fs, ses_dir), video_path,
                       Bytes("clip_video", l1.video_bytes[1]))
      fs2 == IF has_audio
             THEN WriteFile(fs1, audio_path[1], Bytes("clip_audio", l1.audio_bytes[1]))
             ELSE fs1
      metadata == [session_id |-> session_id, policy_id |-> q.policy_id,
                   mode |-> l1.mode, challenge_id |-> q.challenge_id,
                   enrollment_id_face |-> q.enrollment_id_face,
                   enrollment_id_voice |-> q.enrollment_id_voice,
                   input_files |-> [clip_video |-> "clip_video.bin",
                                    clip_audio |-> IF audio_path # None
                                                   THEN Some("clip_audio.bin")
                                                   ELSE None]]
      l2 == [l1 EXCEPT !.session_id = Some(session_id),
                       !.video_path = Some(video_path),
                       !.audio_path = audio_path,
                       !.timings = [total |-> 0, challenge |-> 0, voice |-> 0,
                                    face |-> 0, lipsync |-> 0, vsr |-> 0,
                                    fusion |-> 0]]
      ch_files == {"clip_video"} \cup
                  (IF IsStandard(r) /\ l2.audio_bytes # None /\ l2.audio_path # None
                   THEN {"clip_audio"} ELSE {})
  IN /\ fs' = WriteFile(fs2, ses_dir \o "/metadata.json", metadata)
     /\ writes' = writes
          \o <<[op |-> "mkdir", path |-> ses_dir, run |-> r],
               [op |-> "write", path |-> video_path, run |-> r]>>
          \o (IF has_audio
              THEN <<[op |-> "write", path |-> audio_path[1], run |-> r]>>
              ELSE <<>>)
          \o <<[op |-> "write", path |-> ses_dir \o "/metadata.json", run |-> r]>>
     /\ IssueCall(r, l2, "challenge", ch_files, now)

\* 2) Read + size guard: the video
ReadVideo(r) ==
  /\ pc[r] = "read_video"
  /\ LET l1 == [loc[r] EXCEPT !.video_bytes = Some(req[r].clip_video),
                              !.audio_bytes = None]
     IN IF l1.video_bytes[1] > VideoCeiling
        THEN /\ Respond(r, l1, _err(413, "VIDEO_TOO_LARGE", "clip_video exceeds", None))
             /\ UNCHANGED <<fs, writes>>
        ELSE IF IsStandard(r) /\ req[r].clip_audio # None
        THEN /\ loc' = [loc EXCEPT ![r] = l1]
             /\ pc' = [pc EXCEPT ![r] = "read_audio"]
             /\ UNCHANGED <<attempt, calls, response, fs, writes>>
        ELSE PersistAndCallChallenge(r, l1)
  /\ UNCHANGED <<req, now, ended, only_transport, http_failed>>

\* 2) Read + size guard: the audio (STRICT_STANDARD only)
ReadAudio(r) ==
  /\ pc[r] = "read_audio"
  /\ LET l1 == [loc[r] EXCEPT !.audio_bytes = req[r].clip_audio]
     IN IF l1.audio_bytes[1] > AudioCeiling
        THEN /\ Respond(r, l1, _err(413, "AUDIO_TOO_LARGE", "clip_audio exceeds", None))
             /\ UNCHANGED <<fs, writes>>
        ELSE PersistAndCallChallenge(r, l1)
  /\ UNCHANGED <<req, now, ended, only_transport, http_failed>>

\* mutant: the VSR step is not guarded by the policy
CallVsrOrFusion_Unguarded(r, l, tnow) ==
  IssueCall(r, l, "vsr", {"clip_video"}, tnow)

\* 5C) VSR (STRICT_SILENT), else 6) Fusion evaluate
CallVsrOrFusion(r, l, tnow) ==
  IF IsSilent(r)
  THEN IssueCall(r, l, "vsr", {"clip_video"}, tnow)
  ELSE IssueCall(r, l, "fusion", {}, tnow)

\* 4) after the Challenge call returned
ChallengeReturned(r, res, tnow) ==
  LET l1 == [loc[r] EXCEPT !.timings.challenge = tnow - loc[r].t_call]
  IN IF IsHttpError(res)
     THEN Respond(r, l1, _err(StatusOf(res), "CHALLENGE_ERROR", "challenge validate failed",
                              OrList(Get(ErrJson(res), "flags_summary"), <<>>)))
     ELSE LET got == OrList(OrList(Get(res, "flags_challenge"), Get(res, "flags")), <<>>)
              l2 == [l1 EXCEPT !.challenge_score = Get(res, "score_challenge"),
                               !.challenge_decision = Get(res, "decision_challenge"),
                               !.flags_summary = @ \o got,
                               !.reported = Append(@, got),
                               !.voice_score = None, !.face_score = None,
                               !.lipsync_score = None, !.vsr_score = None]
          IN IssueCall(r, l2, "face", {"clip_video"}, tnow)

\* 5A) after the Face call returned
FaceReturned(r, res, tnow) ==
  LET l1 == [loc[r] EXCEPT !.timings.face = tnow - loc[r].t_call]
  IN IF IsHttpError(res)
     THEN Respond(r, l1, _err(StatusOf(res), "FACE_ERROR", "face verify failed",
                              OrList(OrList(Get(ErrJson(res), "flags_face"),
                                            Get(ErrJson(res), "flags_summary")), <<>>)))
     ELSE LET got == OrList(OrList(Get(res, "flags_face"), Get(res, "flags")), <<>>)
              l2 == [l1 EXCEPT !.face_score = OrNum(Get(res, "score_face_match"),
                                                    Get(res, "face_score")),
                               !.flags_summary = @ \o got,
                               !.reported = Append(@, got)]
          IN IF IsStandard(r) /\ l2.audio_bytes # None /\ l2.audio_path # None
             THEN IssueCall(r, l2, "voice", {"clip_audio"}, tnow)
             ELSE CallVsrOrFusion(r, l2, tnow)

\* 5B) after the Voice call returned
VoiceReturned(r, res, tnow) ==
  LET l1 == [loc[r] EXCEPT !.timings.voice = tnow - loc[r].t_call]
  IN IF IsHttpError(res)
     THEN Respond(r, l1, _err(StatusOf(res), "VOICE_ERROR", "voice verify failed",
                              OrList(OrList(Get(ErrJson(res), "flags_voice"),
                                            Get(ErrJson(res), "flags_summary")), <<>>)))
     ELSE LET got == OrList(OrList(Get(res, "flags_voice"), Get(res, "flags")), <<>>)
              l2 == [l1 EXCEPT !.voice_score = OrNum(Get(res, "score_voice_match"),
                                                     Get(res, "voice_score")),
                               !.flags_summary = @ \o got,
                               !.reported = Append(@, got)]
          IN IssueCall(r, l2, "lipsync", {"clip_video", "clip_audio"}, tnow)

\* 5B) after the Lip-sync call returned
LipsyncReturned(r, res, tnow) ==
  LET l1 == [loc[r] EXCEPT !.timings.lipsync = tnow - loc[r].t_call]
  IN IF IsHttpError(res)
     THEN Respond(r, l1, _err(StatusOf(res), "LIPSYNC_ERROR", "lipsync failed",
                              OrList(OrList(Get(ErrJson(res), "flags_lipsync"),
                                            Get(ErrJson(res), "flags_summary")), <<>>)))
     ELSE LET got == OrList(OrList(Get(res, "flags_lipsync"), Get(res, "flags")), <<>>)
              l2 == [l1 EXCEPT !.lipsync_score = OrNum(Get(res, "score_lipsync"),
                                                       Get(res, "lipsync_score")),
                               !.flags_summary = @ \o got,
                               !.reported = Append(@, got)]
          IN CallVsrOrFusion(r, l2, tnow)

\* 5C) after the VSR call returned
VsrReturned(r, res, tnow) ==
  LET l1 == [loc[r] EXCEPT !.timings.vsr = tnow - loc[r].t_call]
  IN IF IsHttpError(res)
     THEN Respond(r, l1, _err(StatusOf(res), "VSR_ERROR", "vsr failed",
                              OrList(OrList(Get(ErrJson(res), "flags_vsr"),
                                            Get(ErrJson(res), "flags_summary")), <<>>)))
     ELSE LET got == OrList(OrList(Get(res, "flags_vsr"), Get(res, "flags")), <<>>)
              l2 == [l1 EXCEPT !.vsr_score = OrNum(Get(res, "score_vsr"),
                                                   Get(res, "vsr_score")),
                               !.flags_summary = @ \o got,
                               !.reported = Append(@, got)]
          IN IssueCall(r, l2, "fusion", {}, tnow)

\* mutant: the voice and face scores are stored under each other's key
Breakdown_Swapped(l) ==
  [voice_score |-> l.face_score, face_score |-> l.voice_score,
   lipsync_score |-> l.lipsync_score, challenge_score |-> l.challenge_score,
   vsr_score |-> l.vsr_score]

Breakdown(l) ==
  [voice_score |-> l.voice_score, face_score |-> l.face_score,
   lipsync_score |-> l.lipsync_score, challenge_score |-> l.challenge_score,
   vsr_score |-> l.vsr_score]

\* mutant: the proof is serialised after the total time was computed
ProofTimings_AfterTotal(l, tnow) == [l.timings EXCEPT !.total = tnow - l.t0]

\* the timings dict as json.dumps finds it when the proof is written
ProofTimings(l, tnow) == l.timings

\* 6) after the Fusion call returned, 7) proof + evidence hashes, the response
FusionReturned(r, res, tnow) ==
  LET l1 == [loc[r] EXCEPT !.timings.fusion = tnow - loc[r].t_call]
  IN IF IsHttpError(res)
     THEN /\ Respond(r, l1, _err(StatusOf(res), "FUSION_ERROR", "fusion evaluate failed",
                                 OrList(Get(ErrJson(res), "flags_summary"), <<>>)))
          /\ UNCHANGED <<fs, writes>>
     ELSE LET q == req[r]
              final_decision == OrStr(OrStr(Get(res, "final_decision"), Get(res, "decision")),
                                      Some("INCONCLUSIVE"))
              got == OrList(OrList(Get(res, "flags_summary"), Get(res, "flags")), <<>>)
              flags_summary == FinalFlags(l1.flags_summary \o got)
              proof_id == _new_proof_id(r)
              proof_path == ProofPath(proof_id)
              sha_video == _sha256_file(fs, l1.video_path[1])
              sha_audio == IF l1.audio_path # None
                           THEN Some(_sha256_file(fs, l1.audio_path[1])) ELSE None
              proof_obj ==
                [proof_version |-> "proof_multimodal_v1", proof_id |-> proof_id,
                 policy_id |-> q.policy_id, mode |-> l1.mode,
                 session_id |-> l1.session_id,
                 inputs |-> [enrollment_id_face |-> q.enrollment_id_face,
                             enrollment_id_voice |-> q.enrollment_id_voice,
                             challenge_id |-> q.challenge_id],
                 results |-> [final_decision |-> final_decision,
                              breakdown |-> Breakdown(l1),
                              flags_summary |-> flags_summary],
                 evidence_refs |->
                   [video |-> [path |-> l1.video_path[1], sha256 |-> sha_video],
                    audio |-> IF l1.audio_path # None
                              THEN Some([path |-> l1.audio_path[1], sha256 |-> sha_audio[1]])
                              ELSE None],
                 timings_ms |-> ProofTimings(l1, tnow)]
              fs1 == WriteFile(fs, proof_path, proof_obj)
              sha_proof == _sha256_file(fs1, proof_path)
              sha_path == SesDir(l1.session_id[1]) \o "/sha256.json"
              l2 == [l1 EXCEPT !.flags_summary = flags_summary,
                               !.reported = Append(@, got),
                               !.timings.total = tnow - l1.t0]
          IN /\ fs' = WriteFile(fs1, sha_path,
                                [clip_video_sha256 |-> sha_video,
                                 clip_audio_sha256 |-> sha_audio,
                                 proof_sha256 |-> sha_proof])
             /\ writes' = writes \o <<[op |-> "write", path |-> proof_path, run |-> r],
                                      [op |-> "write", path |-> sha_path, run |-> r]>>
             /\ Respond(r, l2,
                  [kind |-> "json", status |-> 200,
                   content |-> [ok |-> TRUE, final_decision |-> final_decision,
                                proof_id |-> proof_id, proof_file |-> proof_path,
                                breakdown |-> Breakdown(l2),
                                flags_summary |-> flags_summary,
                                timings_ms |-> l2.timings]])

\* ------------------------------------------------------------------
\* One HTTP attempt of the awaited call completes
\* ------------------------------------------------------------------
\* two requests are being served
Concurrent == \A r \in Runs : pc[r] # "idle"

\* The answers a module may give to one attempt.  With two requests in
\* flight the menu is the short one: one 2xx JSON body and one 5xx JSON body,
\* and for the Face module a transport failure too.
ConcReplies(m) ==
  (IF m = "face" THEN {TransportFailure} ELSE {}) \cup
  {Http(200, TRUE, TRUE,
        IF m = "fusion"
        THEN [final_decision |-> Some("ACCEPT"), flags_summary |-> <<"B", "D">>]
        ELSE (PrimaryScoreKey[m] :> Some(90)) @@ (ModuleFlagsKey[m] :> <<"A", "B">>)
               @@ ("decision_challenge" :> Some("PASS")),
        0, 1),
   Http(500, TRUE, TRUE, (ModuleFlagsKey[m] :> <<"E", "E">>) @@ ("flags_summary" :> <<"S">>),
        0, 1)}

Menu(m) == IF Concurrent THEN ConcReplies(m) ELSE Replies(m)

\* History of the module client: when the call ends (a value is returned, or
\* the loop is exhausted and RuntimeError raised) its end is recorded: hard
\* is a returned answer of status >= 400 or a raise; attempts is the number
\* of requests the call sent, value what it returned (None when it raised),
\* after_http_error tells a raise of a call one of whose attempts was
\* answered with a status >= 400.
Observe(r, m, rep) ==
  LET out == HttpExchange(rep)
      transport == only_transport[r] /\ rep.kind = "exc"
      answered_error == rep.kind # "exc" /\ rep.status >= 400
      retry == out.raised /\ attempt[r] + 1 < MaxAttempts
  IN /\ ended' = IF retry THEN ended
                 ELSE [ended EXCEPT ![r] =
                         Append(@, [module |-> m,
                                    hard |-> out.raised \/ rep.status >= 400,
                                    raised |-> out.raised,
                                    transport |-> out.raised /\ transport,
                                    attempts |-> attempt[r] + 1,
                                    value |-> IF out.raised THEN None ELSE out.value,
                                    after_http_error |->
                                      out.raised /\ (http_failed[r] \/ answered_error)])]
     /\ only_transport' = [only_transport EXCEPT ![r] =
                             IF retry THEN transport ELSE TRUE]
     /\ http_failed' = [http_failed EXCEPT ![r] =
                          IF retry THEN @ \/ answered_error ELSE FALSE]

ChallengeReply(r) ==
  /\ pc[r] = "await_challenge"
  /\ \E rep \in Menu("challenge") :
       /\ now' = now + rep.ms
       /\ Observe(r, "challenge", rep)
       /\ IF HttpExchange(rep).raised THEN ClientRaised(r)
          ELSE ChallengeReturned(r, HttpExchange(rep).value, now + rep.ms)
  /\ UNCHANGED <<req, fs, writes>>

FaceReply(r) ==
  /\ pc[r] = "await_face"
  /\ \E rep \in Menu("face") :
       /\ now' = now + rep.ms
       /\ Observe(r, "face", rep)
       /\ IF HttpExchange(rep).raised THEN ClientRaised(r)
          ELSE FaceReturned(r, HttpExchange(rep).value, now + rep.ms)
  /\ UNCHANGED <<req, fs, writes>>

VoiceReply(r) ==
  /\ pc[r] = "await_voice"
  /\ \E rep \in Menu("voice") :
       /\ now' = now + rep.ms
       /\ Observe(r, "voice", rep)
       /\ IF HttpExchange(rep).raised THEN ClientRaised(r)
          ELSE VoiceReturned(r, HttpExchange(rep).value, now + rep.ms)
  /\ UNCHANGED <<req, fs, writes>>

LipsyncReply(r) ==
  /\ pc[r] = "await_lipsync"
  /\ \E rep \in Menu("lipsync") :
       /\ now' = now + rep.ms
       /\ Observe(r, "lipsync", rep)
       /\ IF HttpExchange(rep).raised THEN ClientRaised(r)
          ELSE LipsyncReturned(r, HttpExchange(rep).value, now + rep.ms)
  /\ UNCHANGED <<req, fs, writes>>

VsrReply(r) ==
  /\ pc[r] = "await_vsr"
  /\ \E rep \in Menu("vsr") :
       /\ now' = now + rep.ms
       /\ Observe(r, "vsr", rep)
       /\ IF HttpExchange(rep).raised THEN ClientRaised(r)
          ELSE VsrReturned(r, HttpExchange(rep).value, now + rep.ms)
  /\ UNCHANGED <<req, fs, writes>>

FusionReply(r) ==
  /\ pc[r] = "await_fusion"
  /\ \E rep \in Menu("fusion") :
       /\ now' = now + rep.ms
       /\ Observe(r, "fusion", rep)
       /\ IF HttpExchange(rep).raised
          THEN ClientRaised(r) /\ UNCHANGED <<fs, writes>>
          ELSE FusionReturned(r, HttpExchange(rep).value, now + rep.ms)
  /\ UNCHANGED req

Next ==
  \E r \in Runs :
    \/ Validate(r)
    \/ ReadVideo(r)
    \/ ReadAudio(r)
    \/ ChallengeReply(r)
    \/ FaceReply(r)
    \/ VoiceReply(r)
    \/ LipsyncReply(r)
    \/ VsrReply(r)
    \/ FusionReply(r)

Spec == Init /\ [][Next]_vars

\* Two requests served concurrently by the one event loop: the handler runs
\* interleave at their awaits, that is between any two actions.
ConcRequests ==
  { [policy_id |-> "STRICT_STANDARD", enrollment_id_face |-> "FACE-1",
     enrollment_id_voice |-> Some("VOICE-1"), challenge_id |-> "CH-1",
     clip_video |-> VideoCeiling, clip_audio |-> Some(AudioCeiling)],
    [policy_id |-> "STRICT_SILENT", enrollment_id_face |-> "FACE-1",
     enrollment_id_voice |-> None, challenge_id |-> "CH-1",
     clip_video |-> VideoCeiling, clip_audio |-> Some(AudioCeiling)],
    [policy_id |-> "STRICT_STANDARD", enrollment_id_face |-> "FACE-1",
     enrollment_id_voice |-> Some("VOICE-1"), challenge_id |-> "CH-1",
     clip_video |-> VideoCeiling, clip_audio |-> Some(AudioCeiling + 1)],
    [policy_id |-> "STRICT_LOOSE", enrollment_id_face |-> "FACE-1",
     enrollment_id_voice |-> None, challenge_id |-> "CH-1",
     clip_video |-> VideoCeiling, clip_audio |-> None] }

InitConc ==
  /\ InitRuns(Runs)
  /\ \A r \in Runs : req[r] \in ConcRequests

SpecConc == InitConc /\ [][Next]_vars

\* ------------------------------------------------------------------
\* multimodal_verify run alone: the handler as a function of the request q
\* and of what its module calls returned, ans[k] being the end of the k-th
\* call (a run still awaiting its k-th call has k-1 of them).  The result
\* is the sequence of calls issued, the response and the proof, clock
\* readings left out.
\* ------------------------------------------------------------------
AloneErrorCode ==
  [challenge |-> "CHALLENGE_ERROR", face |-> "FACE_ERROR", voice |-> "VOICE_ERROR",
   lipsync |-> "LIPSYNC_ERROR", vsr |-> "VSR_ERROR", fusion |-> "FUSION_ERROR"]

\* the local that holds the score of a module
AloneScoreVar ==
  [challenge |-> "challenge_score", face |-> "face_score", voice |-> "voice_score",
   lipsync |-> "lipsync_score", vsr |-> "vsr_score"]

ModuleErrorMessage ==
  [challenge |-> "challenge validate failed", face |-> "face verify failed",
   voice |-> "voice verify failed", lipsync |-> "lipsync failed",
   vsr |-> "vsr failed", fusion |-> "fusion evaluate failed"]

\* 1) and 2): the response of a request that is refused, None when it passes
AloneRefusal(q) ==
  IF _policy_to_mode(q.policy_id) = "ValueError"
  THEN Some(_err(400, "INVALID_POLICY", "policy_id not supported", None))
  ELSE IF q.enrollment_id_face = ""
  THEN Some(_err(400, "MISSING_FIELD", "enrollment_id_face required", None))
  ELSE IF q.policy_id = "STRICT_STANDARD" /\ ~TruthyStr(q.enrollment_id_voice)
  THEN Some(_err(400, "MISSING_FIELD",
                 "enrollment_id_voice required for STRICT_STANDARD", None))
  ELSE IF q.policy_id = "STRICT_STANDARD" /\ q.clip_audio = None
  THEN Some(_err(400, "MISSING_FIELD", "clip_audio required for STRICT_STANDARD", None))
  ELSE IF q.clip_video > VideoCeiling
  THEN Some(_err(413, "VIDEO_TOO_LARGE", "clip_video exceeds", None))
  ELSE IF q.policy_id = "STRICT_STANDARD" /\ q.clip_audio[1] > AudioCeiling
  THEN Some(_err(413, "AUDIO_TOO_LARGE", "clip_audio exceeds", None))
  ELSE None

\* 4) to 6): the calls of a request that passed, in order, with their uploads
AloneSteps(q) ==
  IF q.policy_id = "STRICT_STANDARD"
  THEN <<[module |-> "challenge", files |-> {"clip_video", "clip_audio"}],
         [module |-> "face", files |-> {"clip_video"}],
         [module |-> "voice", files |-> {"clip_audio"}],
         [module |-> "lipsync", files |-> {"clip_video", "clip_audio"}],
         [module |-> "fusion", files |-> {}]>>
  ELSE <<[module |-> "challenge", files |-> {"clip_video"}],
         [module |-> "face", files |-> {"clip_video"}],
         [module |-> "vsr", files |-> {"clip_video"}],
         [module |-> "fusion", files |-> {}]>>

\* the flags read from a module's answer: the error body, the success body
AloneErrFlags(m, v) ==
  IF m \in {"challenge", "fusion"}
  THEN OrList(Get(ErrJson(v), "flags_summary"), <<>>)
  ELSE OrList(OrList(Get(ErrJson(v), ModuleFlagsKey[m]),
                     Get(ErrJson(v), "flags_summary")), <<>>)

AloneOkFlags(m, v) == OrList(OrList(Get(v, ModuleFlagsKey[m]), Get(v, "flags")), <<>>)

AloneScore(m, v) ==
  IF m = "challenge" THEN Get(v, "score_challenge")
  ELSE OrNum(Get(v, PrimaryScoreKey[m]), Get(v, AltScoreKey[m]))

\* 7) the proof and the success response, from what the run holds
AloneProof(r, q, final_decision, scores, flags_summary) ==
  LET ses_dir == SesDir(_new_session_id(r))
      has_audio == q.policy_id = "STRICT_STANDARD"
  IN [proof_version |-> "proof_multimodal_v1", proof_id |-> _new_proof_id(r),
      policy_id |-> q.policy_id, mode |-> Some(_policy_to_mode(q.policy_id)),
      session_id |-> Some(_new_session_id(r)),
      inputs |-> [enrollment_id_face |-> q.enrollment_id_face,
                  enrollment_id_voice |-> q.enrollment_id_voice,
                  challenge_id |-> q.challenge_id],
      results |-> [final_decision |-> final_decision, breakdown |-> scores,
                   flags_summary |-> flags_summary],
      evidence_refs |->
        [video |-> [path |-> ses_dir \o "/clip_video.bin",
                    sha256 |-> [sha256_of |-> Bytes("clip_video", q.clip_video)]],
         audio |-> IF has_audio
                   THEN Some([path |-> ses_dir \o "/clip_audio.bin",
                              sha256 |-> [sha256_of |->
                                            Bytes("clip_audio", q.clip_audio[1])]])
                   ELSE None]]

AloneSuccess(r, final_decision, scores, flags_summary) ==
  [kind |-> "json", status |-> 200,
   content |-> [ok |-> TRUE, final_decision |-> final_decision,
                proof_id |-> _new_proof_id(r),
                proof_file |-> ProofPath(_new_proof_id(r)),
                breakdown |-> scores, flags_summary |-> flags_summary]]

RECURSIVE AloneFrom(_, _, _, _, _, _)
AloneFrom(r, q, ans, k, scores, flags) ==
  LET step == AloneSteps(q)[k]
      m == step.module
      issued == SubSeq(AloneSteps(q), 1, k)
  IN IF k > Len(ans)
     THEN [calls |-> issued, response |-> NoResponse, proof |-> None]
     ELSE IF ans[k].raised
     THEN [calls |-> issued, response |-> Unhandled, proof |-> None]
     ELSE IF IsHttpError(ans[k].value)
     THEN [calls |-> issued,
           response |-> _err(StatusOf(ans[k].value), AloneErrorCode[m],
                             ModuleErrorMessage[m], AloneErrFlags(m, ans[k].value)),
           proof |-> None]
     ELSE IF m = "fusion"
     THEN LET v == ans[k].value
              final_decision == OrStr(OrStr(Get(v, "final_decision"), Get(v, "decision")),
                                      Some("INCONCLUSIVE"))
              flags_summary == FinalFlags(flags \o AloneOkFlags(m, v))
          IN [calls |-> issued,
              response |-> AloneSuccess(r, final_decision, scores, flags_summary),
              proof |-> Some(AloneProof(r, q, final_decision, scores, flags_summary))]
     ELSE AloneFrom(r, q, ans, k + 1,
                    [scores EXCEPT ![AloneScoreVar[m]] = AloneScore(m, ans[k].value)],
                    flags \o AloneOkFlags(m, ans[k].value))

Alone(r, q, ans) ==
  IF AloneRefusal(q) # None
  THEN [calls |-> <<>>, response |-> AloneRefusal(q)[1], proof |-> None]
  ELSE AloneFrom(r, q, ans, 1,
                 [voice_score |-> None, face_score |-> None, lipsync_score |-> None,
                  challenge_score |-> None, vsr_score |-> None],
                 IF q.policy_id = "STRICT_SILENT" /\ q.clip_audio # None
                 THEN <<AUDIO_IGNORED_SILENT>> ELSE <<>>)

TypeOK ==
  /\ \A r \in Runs : pc[r] \in {"idle", "start", "read_video", "read_audio",
                                "await_challenge", "await_face", "await_voice",
                                "await_lipsync", "await_vsr", "await_fusion", "done"}
  /\ \A r \in Runs : attempt[r] \in 0..(MaxAttempts - 1)

\* ------------------------------------------------------------------
\* Vocabulary of the properties
\* ------------------------------------------------------------------
Started == {r \in Runs : pc[r] # "idle"}

CallNames(r) == [i \in DOMAIN calls[r] |-> calls[r][i].module]
Called(r, m) == \E i \in DOMAIN calls[r] : calls[r][i].module = m

\* the call of module m in run r returned without a hard failure
Succeeded(r, m) ==
  \E i \in DOMAIN ended[r] : ended[r][i].module = m /\ ~ended[r][i].hard

IsJson(r) == response[r].kind = "json"
IsSuccess(r) == IsJson(r) /\ response[r].content.ok
IsError(r) == IsJson(r) /\ ~response[r].content.ok

ModuleErrorCode ==
  [challenge |-> "CHALLENGE_ERROR", face |-> "FACE_ERROR", voice |-> "VOICE_ERROR",
   lipsync |-> "LIPSYNC_ERROR", vsr |-> "VSR_ERROR", fusion |-> "FUSION_ERROR"]

InputErrorCodes == {"INVALID_POLICY", "MISSING_FIELD", "VIDEO_TOO_LARGE", "AUDIO_TOO_LARGE"}

IsModuleError(r) ==
  IsError(r) /\ response[r].content.error_code \in {ModuleErrorCode[m] : m \in Modules}

Elems(l) == {l[i] : i \in DOMAIN l}
NoDuplicates(l) == \A i, j \in DOMAIN l : l[i] = l[j] => i = j

\* the steps a policy requires, in order
RequiredSteps(policy_id) ==
  IF policy_id = "STRICT_STANDARD"
  THEN <<"challenge", "face", "voice", "lipsync", "fusion">>
  ELSE IF policy_id = "STRICT_SILENT"
  THEN <<"challenge", "face", "vsr", "fusion">>
  ELSE <<>>

IsPrefixOf(s, t) == Len(s) <= Len(t) /\ \A i \in DOMAIN s : s[i] = t[i]

\* the proof file of run r, once written
ProofOf(r) == fs[ProofPath(_new_proof_id(r))].data
HasProof(r) == ProofPath(_new_proof_id(r)) \in DOMAIN fs

\* ------------------------------------------------------------------
\* C1  Short-circuit: once a module call of a run ended in a hard failure
\* (an answer of status >= 400, or the client giving up), that call is the
\* last one the run ever issued; a failed Face call is followed by no Voice,
\* Lip-sync, VSR or Fusion call.
\* ------------------------------------------------------------------
C1_ShortCircuit ==
  \A r \in Runs : \A i \in DOMAIN ended[r] :
    ended[r][i].hard =>
      /\ Len(calls[r]) = i
      /\ calls[r][i].module = ended[r][i].module
      /\ (ended[r][i].module = "face" =>
            \A m \in {"voice", "lipsync", "vsr", "fusion"} : ~Called(r, m))

C1_Witness ==
  \E r \in Runs :
    /\ pc[r] = "done"
    /\ Len(ended[r]) = 2
    /\ ended[r][2].module = "face" /\ ended[r][2].hard
    /\ ~ended[r][1].hard

\* ------------------------------------------------------------------
\* C2  Input validation before any I/O: a request with an unknown policy, an
\* empty enrollment_id_face, or STRICT_STANDARD without enrollment_id_voice
\* or without clip_audio, ends with 400 INVALID_POLICY (unknown policy) or
\* 400 MISSING_FIELD (otherwise); nothing is created or written for it and no
\* module call is issued.
\* ------------------------------------------------------------------
UnknownPolicy(q) == q.policy_id \notin {"STRICT_STANDARD", "STRICT_SILENT"}

InvalidRequest(q) ==
  \/ UnknownPolicy(q)
  \/ q.enrollment_id_face = ""
  \/ /\ q.policy_id = "STRICT_STANDARD"
     /\ \/ q.enrollment_id_voice \in {None, Some("")}
        \/ q.clip_audio = None

C2_ValidationBeforeIO ==
  \A r \in Started :
    InvalidRequest(req[r]) =>
      /\ pc[r] \in {"start", "done"}
      /\ calls[r] = <<>>
      /\ \A i \in DOMAIN writes : writes[i].run # r
      /\ SesDir(_new_session_id(r)) \notin DOMAIN fs
      /\ pc[r] = "done" =>
           /\ IsError(r)
           /\ response[r].status = 400
           /\ response[r].content.error_code =
                IF UnknownPolicy(req[r]) THEN "INVALID_POLICY" ELSE "MISSING_FIELD"

C2_Witness ==
  \E r \in Runs :
    /\ pc[r] = "done"
    /\ req[r].policy_id = "STRICT_STANDARD"
    /\ req[r].enrollment_id_face # ""
    /\ req[r].enrollment_id_voice = Some("VOICE-1")
    /\ req[r].clip_audio = None
    /\ response[r].content.error_code = "MISSING_FIELD"

\* ------------------------------------------------------------------
\* C3  Step ordering and Fusion barrier: the calls of a run are a prefix of
\* Challenge, Face, Voice, Lip-sync, Fusion (STRICT_STANDARD) or Challenge,
\* Face, VSR, Fusion (STRICT_SILENT); a call is issued only when every
\* earlier call has ended; Fusion is called only when every required step
\* before it returned without a hard failure.
\* ------------------------------------------------------------------
C3_OrderAndBarrier ==
  \A r \in Runs :
    /\ IsPrefixOf(CallNames(r), RequiredSteps(req[r].policy_id))
    /\ Len(calls[r]) - 1 <= Len(ended[r])
    /\ Len(ended[r]) <= Len(calls[r])
    /\ Called(r, "fusion") =>
         \A m \in Elems(RequiredSteps(req[r].policy_id)) \ {"fusion"} : Succeeded(r, m)

C3_Witness ==
  \E r \in Runs :
    /\ req[r].policy_id = "STRICT_STANDARD"
    /\ pc[r] = "await_fusion"
    /\ CallNames(r) = <<"challenge", "face", "voice", "lipsync", "fusion">>

\* ------------------------------------------------------------------
\* C4  Every error response for a failed module step carries in
\* flags_summary the flags accumulated by the steps before the failure
\* (AUDIO_IGNORED_SILENT included when it was raised).
\* ------------------------------------------------------------------
C4_ErrorCarriesAccumulatedFlags ==
  \A r \in Runs :
    IsModuleError(r) =>
      Elems(loc[r].flags_summary) \subseteq Elems(response[r].content.flags_summary)

\* ------------------------------------------------------------------
\* C5  A module call that failed in transport on every attempt ends the run
\* with the error envelope {ok:false, error_code, error_message,
\* flags_summary} carrying that module's error code.
\* ------------------------------------------------------------------
C5_TransportFailureIsTyped ==
  \A r \in Runs : \A i \in DOMAIN ended[r] :
    ended[r][i].transport =>
      /\ IsError(r)
      /\ DOMAIN response[r].content =
           {"ok", "error_code", "error_message", "flags_summary"}
      /\ response[r].content.error_code = ModuleErrorCode[ended[r][i].module]

\* ------------------------------------------------------------------
\* C6  A STRICT_SILENT request with an audio clip is not rejected for the
\* audio, no module call of the run carries a clip_audio part, and no audio
\* file is persisted for the run.
\* ------------------------------------------------------------------
SilentWithAudio(r) ==
  req[r].policy_id = "STRICT_SILENT" /\ req[r].clip_audio # None

IsAudioFile(f) ==
  f.type = "file" /\ "part" \in DOMAIN f.data /\ f.data.part = "clip_audio"

C6_SilentAudioExcluded ==
  \A r \in Started :
    SilentWithAudio(r) =>
      /\ \A i \in DOMAIN calls[r] : "clip_audio" \notin calls[r][i].files
      /\ \A i \in DOMAIN writes :
           writes[i].run = r /\ writes[i].op = "write" => ~IsAudioFile(fs[writes[i].path])
      /\ IsError(r) => response[r].content.error_code # "AUDIO_TOO_LARGE"
      /\ (/\ req[r].enrollment_id_face # ""
          /\ req[r].clip_video <= VideoCeiling
          /\ IsError(r))
           => response[r].content.error_code \notin InputErrorCodes
      /\ (req[r].enrollment_id_face # "" /\ req[r].clip_video <= VideoCeiling)
           => pc[r] \notin {"read_audio"}

C6_Witness ==
  \E r \in Runs :
    /\ SilentWithAudio(r)
    /\ req[r].clip_audio = Some(AudioCeiling + 1)
    /\ IsSuccess(r)
    /\ Len(calls[r]) = 4

\* ------------------------------------------------------------------
\* C7  For an accepted STRICT_SILENT request with an audio clip, the response
\* returned to the caller has AUDIO_IGNORED_SILENT in its flags_summary,
\* whatever the modules answered.
\* ------------------------------------------------------------------
C7_AudioIgnoredAlwaysFlagged ==
  \A r \in Runs :
    (SilentWithAudio(r) /\ pc[r] = "done" /\ calls[r] # <<>>) =>
      /\ IsJson(r)
      /\ AUDIO_IGNORED_SILENT \in Elems(response[r].content.flags_summary)

\* ------------------------------------------------------------------
\* C8  The flags_summary of a successful response is the first-occurrence
\* deduplication of the flags in pipeline order (AUDIO_IGNORED_SILENT if
\* raised, then the flags of Challenge, Face, Voice, Lip-sync or VSR,
\* Fusion), cut to its first 20 entries: [A, B, A, C] yields [A, B, C].
\* ------------------------------------------------------------------
RECURSIVE Flatten(_)
Flatten(ls) == IF ls = <<>> THEN <<>> ELSE ls[1] \o Flatten(Tail(ls))

PipelineFlags(r) ==
  (IF SilentWithAudio(r) THEN <<AUDIO_IGNORED_SILENT>> ELSE <<>>)
    \o Flatten(loc[r].reported)

\* out lists the first occurrences of in, in their order, up to n of them
IsDedupCut(out, in, n) ==
  LET first == {i \in DOMAIN in : \A j \in 1..(i - 1) : in[j] # in[i]}
      rank(i) == Cardinality({j \in first : j <= i})
  IN /\ Len(out) = Min(n, Cardinality(first))
     /\ \A i \in first : rank(i) <= n => out[rank(i)] = in[i]

C8_SummaryIsDedupCut ==
  \A r \in Runs :
    IsSuccess(r) =>
      IsDedupCut(response[r].content.flags_summary, PipelineFlags(r), FLAGS_LIMIT)

C8_Witness ==
  \E r \in Runs :
    /\ IsSuccess(r)
    /\ PipelineFlags(r) = <<"A", "B", "A", "C">>
    /\ response[r].content.flags_summary = <<"A", "B", "C">>

\* ------------------------------------------------------------------
\* C9  Every flag list given to the caller (success or error response) or
\* written in a proof has no duplicate entry and at most 20 entries.
\* ------------------------------------------------------------------
BoundedFlagList(l) == NoDuplicates(l) /\ Len(l) <= FLAGS_LIMIT

C9_FlagListsBounded ==
  \A r \in Runs :
    /\ IsJson(r) => BoundedFlagList(response[r].content.flags_summary)
    /\ HasProof(r) => BoundedFlagList(ProofOf(r).results.flags_summary)

\* ------------------------------------------------------------------
\* C10  Mode branching: a STRICT_SILENT run never calls Voice or Lip-sync and
\* answers (and proves) null voice and lip-sync scores; a STRICT_STANDARD run
\* never calls VSR and answers a null vsr score; a STRICT_STANDARD run whose
\* Face call returned has called Voice, and has called Lip-sync once Voice
\* returned.
\* ------------------------------------------------------------------
C10_ModeBranching ==
  \A r \in Started :
    /\ req[r].policy_id = "STRICT_SILENT" =>
         /\ ~Called(r, "voice") /\ ~Called(r, "lipsync")
         /\ IsSuccess(r) =>
              /\ response[r].content.breakdown.voice_score = None
              /\ response[r].content.breakdown.lipsync_score = None
              /\ HasProof(r)
              /\ ProofOf(r).results.breakdown.voice_score = None
              /\ ProofOf(r).results.breakdown.lipsync_score = None
    /\ req[r].policy_id = "STRICT_STANDARD" =>
         /\ ~Called(r, "vsr")
         /\ IsSuccess(r) =>
              /\ response[r].content.breakdown.vsr_score = None
              /\ HasProof(r)
              /\ ProofOf(r).results.breakdown.vsr_score = None
         /\ Succeeded(r, "face") => Called(r, "voice")
         /\ Succeeded(r, "voice") => Called(r, "lipsync")

C10_Witness ==
  \E r \in Runs :
    /\ req[r].policy_id = "STRICT_STANDARD"
    /\ IsSuccess(r)
    /\ Called(r, "voice") /\ Called(r, "lipsync")
    /\ response[r].content.breakdown.voice_score # None
    /\ response[r].content.breakdown.vsr_score = None

\* ------------------------------------------------------------------
\* C11  Size ceiling: a valid request whose video is longer than
\* MAX_VIDEO_MB*1024*1024 bytes ends with 413 VIDEO_TOO_LARGE, and a valid
\* STRICT_STANDARD request whose audio is longer than MAX_AUDIO_MB*1024*1024
\* bytes ends with 413 AUDIO_TOO_LARGE; nothing is created or written for
\* such a run and no module call is issued.  A clip of exactly the ceiling
\* is not rejected.
\* ------------------------------------------------------------------
VideoOver(q) == q.clip_video > MAX_VIDEO_MB * 1024 * 1024

AudioOver(q) ==
  /\ q.policy_id = "STRICT_STANDARD"
  /\ q.clip_audio # None
  /\ q.clip_audio[1] > MAX_AUDIO_MB * 1024 * 1024

NothingDone(r) ==
  /\ calls[r] = <<>>
  /\ \A i \in DOMAIN writes : writes[i].run # r
  /\ SesDir(_new_session_id(r)) \notin DOMAIN fs

Is413(r, code) ==
  /\ IsError(r)
  /\ response[r].status = 413
  /\ response[r].content.error_code = code

C11_SizeCeiling ==
  \A r \in Started :
    ~InvalidRequest(req[r]) =>
      /\ VideoOver(req[r]) =>
           /\ pc[r] \in {"start", "read_video", "done"}
           /\ NothingDone(r)
           /\ pc[r] = "done" => Is413(r, "VIDEO_TOO_LARGE")
      /\ (~VideoOver(req[r]) /\ AudioOver(req[r])) =>
           /\ pc[r] \in {"start", "read_video", "read_audio", "done"}
           /\ NothingDone(r)
           /\ pc[r] = "done" => Is413(r, "AUDIO_TOO_LARGE")
      /\ (~VideoOver(req[r]) /\ ~AudioOver(req[r]) /\ IsError(r)) =>
           response[r].content.error_code \notin InputErrorCodes

C11_Witness ==
  \E r \in Runs :
    /\ ~InvalidRequest(req[r])
    /\ req[r].clip_video = MAX_VIDEO_MB * 1024 * 1024 + 1
    /\ pc[r] = "done"
    /\ Is413(r, "VIDEO_TOO_LARGE")

\* ------------------------------------------------------------------
\* C12  Proof integrity: after every successful run the proof file named by
\* the returned proof_id exists, the proof_sha256 of the session's integrity
\* record is the digest of the bytes that file holds (the file is not
\* changed after the digest was taken), and clip_video_sha256 and
\* clip_audio_sha256 are the digests of the persisted media files.
\* ------------------------------------------------------------------
Digest(data) == [sha256_of |-> data]

IntegrityPath(r) == "sessions/" \o _new_session_id(r) \o "/raw/sha256.json"

IntegrityHolds(r) ==
  LET proof_file == "proofs/" \o response[r].content.proof_id \o ".json"
      rec == fs[IntegrityPath(r)].data
      l == loc[r]
  IN /\ response[r].content.proof_file = proof_file
     /\ proof_file \in DOMAIN fs
     /\ fs[proof_file].type = "file"
     /\ fs[proof_file].data.proof_id = response[r].content.proof_id
     /\ IntegrityPath(r) \in DOMAIN fs
     /\ rec.proof_sha256 = Digest(fs[proof_file].data)
     /\ l.video_path[1] \in DOMAIN fs
     /\ fs[l.video_path[1]].data = Bytes("clip_video", req[r].clip_video)
     /\ rec.clip_video_sha256 = Digest(fs[l.video_path[1]].data)
     /\ IF l.audio_path # None
        THEN /\ l.audio_path[1] \in DOMAIN fs
             /\ fs[l.audio_path[1]].data = Bytes("clip_audio", req[r].clip_audio[1])
             /\ rec.clip_audio_sha256 = Some(Digest(fs[l.audio_path[1]].data))
        ELSE rec.clip_audio_sha256 = None

C12_ProofIntegrity == \A r \in Started : IsSuccess(r) => IntegrityHolds(r)

C12_Witness ==
  \E r \in Runs :
    /\ IsSuccess(r)
    /\ loc[r].audio_path # None
    /\ fs[IntegrityPath(r)].data.proof_sha256 = Digest(ProofOf(r))

\* ------------------------------------------------------------------
\* C13  Proof created once.  As claimed: every ended run that persisted its
\* evidence has exactly one proof, whether it completed or failed hard at a
\* module before Fusion, and no proof file is written twice.
\* ------------------------------------------------------------------
ProofWrites(r) ==
  {i \in DOMAIN writes : writes[i].run = r /\ writes[i].path = ProofPath(_new_proof_id(r))}

Persisted(r) == \E i \in DOMAIN writes : writes[i].run = r /\ writes[i].op = "write"

NoFileWrittenTwice ==
  \A i, j \in DOMAIN writes :
    (writes[i].op = "write" /\ writes[j].op = "write" /\ writes[i].path = writes[j].path)
      => i = j

C13_ProofOncePerPersistedRun ==
  /\ \A r \in Started :
       (pc[r] = "done" /\ Persisted(r)) => Cardinality(ProofWrites(r)) = 1
  /\ NoFileWrittenTwice

\* C13, amended: a run has exactly one proof when its Fusion call returned
\* without a hard failure, and no proof otherwise (not before Fusion
\* returned, and never for a run that failed hard at a module); no file is
\* written twice.
C13_ProofOncePerCompletedRun ==
  /\ \A r \in Started :
       /\ Cardinality(ProofWrites(r)) = (IF Succeeded(r, "fusion") THEN 1 ELSE 0)
       /\ HasProof(r) <=> Succeeded(r, "fusion")
  /\ NoFileWrittenTwice

C13_Witness ==
  \E r \in Runs :
    /\ pc[r] = "done"
    /\ Succeeded(r, "fusion")
    /\ Cardinality(ProofWrites(r)) = 1
    /\ HasProof(r)

\* ------------------------------------------------------------------
\* C14  Partial results of a short-circuited run: the response of a run that
\* ended with a module error carries a breakdown whose scores are those
\* captured so far (null for every module that was not run) and the timings
\* of the steps that ran.
\* ------------------------------------------------------------------
ScoreKey == [challenge |-> "challenge_score", face |-> "face_score",
             voice |-> "voice_score", lipsync |-> "lipsync_score",
             vsr |-> "vsr_score"]

C14_ErrorCarriesPartialResults ==
  \A r \in Started :
    IsModuleError(r) =>
      /\ "breakdown" \in DOMAIN response[r].content
      /\ "timings_ms" \in DOMAIN response[r].content
      /\ \A m \in DOMAIN ScoreKey :
           ~Called(r, m) => response[r].content.breakdown[ScoreKey[m]] = None
      /\ \A m \in DOMAIN ScoreKey :
           Called(r, m) => response[r].content.timings_ms[m] = loc[r].timings[m]

\* ------------------------------------------------------------------
\* C15  Final decision.  As claimed: in every successful response and proof
\* final_decision is non-null, equal to the final_decision the Fusion module
\* supplied, and INCONCLUSIVE when the module supplied none.
\* ------------------------------------------------------------------
\* what the Fusion call of run r returned
FusionAnswer(r) ==
  LET i == CHOOSE j \in DOMAIN ended[r] : ended[r][j].module = "fusion"
  IN ended[r][i].value

Supplied(v, k) == IF k \in DOMAIN v THEN v[k] ELSE None

C15_DecisionFromFusion ==
  \A r \in Started :
    IsSuccess(r) =>
      LET fd == response[r].content.final_decision
          given == Supplied(FusionAnswer(r), "final_decision")
      IN /\ fd # None
         /\ ProofOf(r).results.final_decision = fd
         /\ given # None => fd = given
         /\ given = None => fd = Some("INCONCLUSIVE")

\* C15, amended: final_decision is non-null in every successful response and
\* proof; it is the Fusion module's final_decision when that is a non-empty
\* string, otherwise the module's decision field when that is a non-empty
\* string, otherwise INCONCLUSIVE.
NonEmpty(x) == x # None /\ x[1] # ""

C15_DecisionChain ==
  \A r \in Started :
    IsSuccess(r) =>
      LET fd == response[r].content.final_decision
          given == Supplied(FusionAnswer(r), "final_decision")
          alt == Supplied(FusionAnswer(r), "decision")
      IN /\ fd # None
         /\ ProofOf(r).results.final_decision = fd
         /\ fd = (IF NonEmpty(given) THEN given
                  ELSE IF NonEmpty(alt) THEN alt
                  ELSE Some("INCONCLUSIVE"))

C15_Witness ==
  \E r \in Runs :
    /\ IsSuccess(r)
    /\ Supplied(FusionAnswer(r), "final_decision") = None
    /\ Supplied(FusionAnswer(r), "decision") = Some("REJECT")
    /\ response[r].content.final_decision = Some("REJECT")

\* ------------------------------------------------------------------
\* C16  Bounded retry: a module call sends at least one and at most
\* max(1, HTTP_RETRIES + 1) requests; it fails only when every one of these
\* attempts failed (each failed attempt before the last is followed by one
\* more), it ends at the first attempt that completes, and a call that failed
\* returns no value: it is the last thing its run does.
\* ------------------------------------------------------------------
AttemptBound == IF HTTP_RETRIES + 1 > 1 THEN HTTP_RETRIES + 1 ELSE 1

Awaiting(r) == pc[r] \notin {"idle", "start", "read_video", "read_audio", "done"}

C16_BoundedRetry ==
  \A r \in Started :
    /\ attempt[r] + 1 <= AttemptBound
    /\ attempt[r] <= HTTP_RETRIES \/ attempt[r] = 0
    /\ Len(ended[r]) = Len(calls[r]) - (IF Awaiting(r) THEN 1 ELSE 0)
    /\ \A i \in DOMAIN ended[r] :
         LET e == ended[r][i]
         IN /\ e.module = calls[r][i].module
            /\ e.attempts \in 1..AttemptBound
            /\ e.raised <=> e.value = None
            /\ e.raised =>
                 /\ e.attempts = AttemptBound
                 /\ i = Len(calls[r])
                 /\ pc[r] = "done"
                 /\ response[r] = Unhandled
            \* each attempt costs one tick of the clock: the step took as
            \* long as the attempts it made
            /\ loc[r].timings[e.module] = (IF e.raised THEN 0 ELSE e.attempts)

C16_Witness ==
  \E r \in Runs :
    /\ Len(ended[r]) >= 2
    /\ ended[r][1].attempts = AttemptBound
    /\ ~ended[r][1].raised
    /\ ended[r][Len(ended[r])].raised
    /\ ended[r][Len(ended[r])].attempts = AttemptBound

\* ------------------------------------------------------------------
\* C17  A 4xx/5xx answer is final: no attempt that was answered with a
\* status >= 400 (whatever its content type, well-formed body or not) is
\* followed by another attempt of the call or by a raise; the call returns
\* the typed error outcome with the status and the JSON body or the text cut
\* to 500 characters.
\* ------------------------------------------------------------------
IsTypedError(v) ==
  /\ "__http_error__" \in DOMAIN v
  /\ v["__http_error__"]
  /\ v["__status__"] >= 400
  /\ \/ "__json__" \in DOMAIN v
     \/ "__text__" \in DOMAIN v /\ v["__text__"] <= 500

C17_HttpErrorIsFinal ==
  \A r \in Started :
    /\ ~http_failed[r]
    /\ \A i \in DOMAIN ended[r] :
         /\ ~ended[r][i].after_http_error
         /\ (ended[r][i].hard /\ ~ended[r][i].raised) => IsTypedError(ended[r][i].value)

\* ------------------------------------------------------------------
\* C18  Score capture is exact: after a Challenge, Face, Voice, Lip-sync or
\* VSR call returned without a hard failure, the score the run holds for the
\* breakdown is the score the module reported in its primary field, for
\* every reported value (0 included), and it is null only when the module
\* reported none there.
\* ------------------------------------------------------------------
PrimaryField ==
  [challenge |-> "score_challenge", face |-> "score_face_match",
   voice |-> "score_voice_match", lipsync |-> "score_lipsync", vsr |-> "score_vsr"]

C18_ScoreCaptureExact ==
  \A r \in Started :
    \A i \in DOMAIN ended[r] :
      LET e == ended[r][i]
      IN (~e.hard /\ e.module \in DOMAIN PrimaryField) =>
           LET reported == Supplied(e.value, PrimaryField[e.module])
               captured == loc[r][ScoreKey[e.module]]
           IN /\ reported # None => captured = reported
              /\ captured = None => reported = None
              /\ IsSuccess(r) =>
                   response[r].content.breakdown[ScoreKey[e.module]] = captured

\* ------------------------------------------------------------------
\* C19  The proof is a pure record: in every successful run the
\* final_decision, the five breakdown scores (all five keys present, null
\* allowed) and the flags_summary stored in the proof are those of the
\* response, and are the values the run held when Fusion returned.
\* ------------------------------------------------------------------
BreakdownKeys ==
  {"voice_score", "face_score", "lipsync_score", "challenge_score", "vsr_score"}

C19_ProofIsPureRecord ==
  \A r \in Started :
    IsSuccess(r) =>
      LET p == ProofOf(r).results
          c == response[r].content
      IN /\ HasProof(r)
         /\ p.final_decision = c.final_decision
         /\ DOMAIN p.breakdown = BreakdownKeys
         /\ DOMAIN c.breakdown = BreakdownKeys
         /\ \A k \in BreakdownKeys :
              /\ p.breakdown[k] = c.breakdown[k]
              /\ p.breakdown[k] = loc[r][k]
         /\ p.flags_summary = c.flags_summary
         /\ p.flags_summary = loc[r].flags_summary

C19_Witness ==
  \E r \in Runs :
    /\ IsSuccess(r)
    /\ ProofOf(r).results.breakdown.face_score = Some(90)
    /\ ProofOf(r).results.breakdown.voice_score = Some(80)
    /\ ProofOf(r).results.breakdown.vsr_score = None
    /\ ProofOf(r).results.flags_summary # <<>>
    /\ ProofOf(r).results.final_decision = Some("ACCEPT")

\* ------------------------------------------------------------------
\* C20  Concurrent requests are independent: however two runs interleave at
\* their awaits, no file is written by both, and the calls a run issues, its
\* response and the contents of its proof are those of the same request run
\* alone with the same module answers (clock readings, which are not a
\* function of the inputs and the answers, left aside).
\* ------------------------------------------------------------------
Without(rec, key) == [k \in DOMAIN rec \ {key} |-> rec[k]]

NoFileWrittenByBoth ==
  \A i, j \in DOMAIN writes :
    writes[i].path = writes[j].path => writes[i].run = writes[j].run

SameResponse(a, b) ==
  /\ a.kind = b.kind
  /\ a.status = b.status
  /\ a.kind = "json" =>
       (IF a.content.ok THEN Without(a.content, "timings_ms") ELSE a.content) = b.content

AsAlone(r) ==
  LET alone == Alone(r, req[r], ended[r])
  IN /\ calls[r] = alone.calls
     /\ SameResponse(response[r], alone.response)
     /\ HasProof(r) <=> alone.proof # None
     /\ HasProof(r) => Without(ProofOf(r), "timings_ms") = alone.proof[1]

C20_ConcurrentRunsIndependent ==
  /\ NoFileWrittenByBoth
  /\ \A r \in Runs : (Awaiting(r) \/ pc[r] = "done") => AsAlone(r)

\* both runs went through all their calls, interleaved, and both have a proof
C20_Witness ==
  /\ Concurrent
  /\ \A r \in Runs : IsSuccess(r) /\ HasProof(r) /\ AsAlone(r)
  /\ req[1].policy_id # req[2].policy_id
  /\ \E i, j, k \in DOMAIN writes :
       i < j /\ j < k /\ writes[i].run = 1 /\ writes[j].run = 2 /\ writes[k].run = 1

\* ------------------------------------------------------------------
\* C21  The proof is written, and digested, before the total time is
\* computed: in the proof of every successful run timings_ms.total is 0, its
\* initial value, while the response carries the total measured from the
\* start of the run; the per-step timings of the proof are those of the
\* response, and the timing of a step the mode does not have is 0 in both.
\* ------------------------------------------------------------------
StepsNotInMode(policy_id) ==
  IF policy_id = "STRICT_STANDARD" THEN {"vsr"} ELSE {"voice", "lipsync"}

StepNames == {"challenge", "voice", "face", "lipsync", "vsr", "fusion"}

C21_ProofTotalIsZero ==
  \A r \in Started :
    IsSuccess(r) =>
      LET pt == ProofOf(r).timings_ms
          rt == response[r].content.timings_ms
      IN /\ DOMAIN pt = StepNames \cup {"total"}
         /\ DOMAIN rt = StepNames \cup {"total"}
         /\ pt.total = 0
         /\ rt.total = now - loc[r].t0
         /\ rt.total > 0
         /\ \A m \in StepNames :
              /\ pt[m] = rt[m]
              /\ m \in StepsNotInMode(req[r].policy_id) => pt[m] = 0 /\ rt[m] = 0
              /\ m \notin StepsNotInMode(req[r].policy_id) => rt[m] > 0
         /\ fs[IntegrityPath(r)].data.proof_sha256 = Digest(ProofOf(r))

C21_Witness ==
  \E r \in Runs :
    /\ IsSuccess(r)
    /\ req[r].policy_id = "STRICT_SILENT"
    /\ ProofOf(r).timings_ms.total = 0
    /\ response[r].content.timings_ms.total >= 4
    /\ ProofOf(r).timings_ms.vsr > 0
    /\ response[r].content.timings_ms.voice = 0

====
